---- MODULE Spec2Model ----
(***************************************************************************)
(* Model of TestAppBuilder::build                                          *)
(* (crates/turbopack-create-test-app/src/test_app_builder.rs): the         *)
(* breadth-first generation of a ternary tree of module files under three  *)
(* budgets, the two decision functions decide and decide_early, and the    *)
(* fixed files written after the tree.                                     *)
(*                                                                         *)
(* usize is modelled with UsizeBits bits.  An arithmetic overflow panics   *)
(* when the build has overflow checks (overflow_checks = TRUE, the debug   *)
(* profile) and wraps otherwise (the release profile); a remainder with a  *)
(* zero divisor panics in both.  Every create_dir_all and write_file may   *)
(* fail, which makes build return the error.  When build made its own      *)
(* temporary directory, leaving build by an error or by a panic (which     *)
(* unwinds) drops the TempDir, and that deletes the directory.             *)
(***************************************************************************)
EXTENDS Integers, Sequences, FiniteSets, TLC

\* ----------------------------------------------------------------- bounds
MaxModuleCount == 8
MaxDirectories == 2
MaxDynamicImports == 2
\* flatness values tried; 5 is the builder's default
FlatnessValues == {0, 1, 2, 5}
\* width of usize in the model
UsizeBits == 11
\* largest argument handed to decide / decide_early on their own
MaxArg == 12

\* largest module_count of the runs without dynamic imports
MaxLongModuleCount == 19

\* ------------------------------------------------------- usize arithmetic
UsizeModulus == 2 ^ UsizeBits
UsizeMax == UsizeModulus - 1
IsizeMax == 2 ^ (UsizeBits - 1) - 1

\* size_of::<PathBuf>(): pointer, capacity, length
PathBufBytes == 24
\* a Vec or VecDeque of PathBuf never holds more than isize::MAX bytes
MaxVecLen == IsizeMax \div PathBufBytes

VARIABLES
    \* TestAppBuilder fields and the build profile
    target, module_count, directories_count, dynamic_import_count, flatness,
    package_json, overflow_checks,
    \* position in build, and the reason of a panic
    pc, panic,
    \* locals of build
    remaining_modules, remaining_directories, remaining_dynamic_imports,
    queue, modules, is_root,
    \* whether a saturating_sub of the run has met less than it takes
    clamped,
    \* what build has decided and rendered so far, in order
    nodes, imports,
    \* the file system: nested directories, module files, fixed layout
    dirs, written, fixed,
    \* index of the next step after the loop
    bs,
    \* a call of decide / decide_early on its own
    call

config == <<target, module_count, directories_count, dynamic_import_count, flatness,
            package_json, overflow_checks>>
budget == <<remaining_modules, remaining_directories, remaining_dynamic_imports>>
vars == <<target, module_count, directories_count, dynamic_import_count, flatness,
          package_json, overflow_checks, pc, panic, remaining_modules,
          remaining_directories, remaining_dynamic_imports, queue, modules,
          is_root, clamped, nodes, imports, dirs, written, fixed, bs, call>>

\* a - b overflows usize
sub_overflows(a, b) == a < b
\* a - b without overflow checks
wrapping_sub(a, b) == (a - b + UsizeModulus) % UsizeModulus
\* a subtraction that takes one unit whatever b is
saturating_sub_one(a, b) == IF a < 1 THEN 0 ELSE a - 1

\* usize::saturating_sub
saturating_sub(a, b) == IF a < b THEN 0 ELSE a - b
\* min_remaining_decisions * 11 * 7 * 5 overflows usize
mul_overflows(m) == m * 11 * 7 * 5 > UsizeMax
\* min_remaining_decisions * 11 * 7 * 5 without overflow checks
wrapping_mul(m) == (m * 11 * 7 * 5) % UsizeModulus

\* --------------------------------------------------------------- decisions
\* the panic of decide(remaining, min_remaining_decisions), "none" if it returns
decide_panic(remaining, min_remaining_decisions) ==
    IF remaining = 0 \/ min_remaining_decisions <= remaining THEN "none"
    ELSE IF overflow_checks /\ mul_overflows(min_remaining_decisions)
         THEN "mul_overflow"
         ELSE "none"

\* decide without the test that forces a true result
decide_unforced(remaining, min_remaining_decisions) ==
    IF remaining = 0 THEN FALSE
    ELSE LET urgentness == min_remaining_decisions \div remaining
         IN  urgentness # 0 /\ wrapping_mul(min_remaining_decisions) % urgentness = 0

\* decide with its first two tests swapped
decide_swapped(remaining, min_remaining_decisions) ==
    IF min_remaining_decisions <= remaining THEN TRUE
    ELSE IF remaining = 0 THEN FALSE
    ELSE LET urgentness == min_remaining_decisions \div remaining
         IN  wrapping_mul(min_remaining_decisions) % urgentness = 0

decide(remaining, min_remaining_decisions) ==
    IF remaining = 0 THEN FALSE
    ELSE IF min_remaining_decisions <= remaining THEN TRUE
    ELSE LET urgentness == min_remaining_decisions \div remaining
         IN  wrapping_mul(min_remaining_decisions) % urgentness = 0

\* the panic of decide_early(remaining, min_remaining_decisions), "none" if it returns
decide_early_panic(remaining, min_remaining_decisions) ==
    IF remaining = 0 \/ min_remaining_decisions <= remaining THEN "none"
    ELSE IF overflow_checks /\ mul_overflows(min_remaining_decisions)
         THEN "mul_overflow"
         ELSE IF (min_remaining_decisions \div remaining) \div remaining = 0
              THEN "div_by_zero"
              ELSE "none"

\* decide_early with its first two tests swapped
decide_early_swapped(remaining, min_remaining_decisions) ==
    IF min_remaining_decisions <= remaining THEN TRUE
    ELSE IF remaining = 0 THEN FALSE
    ELSE LET urgentness == (min_remaining_decisions \div remaining) \div remaining
         IN  urgentness # 0 /\ wrapping_mul(min_remaining_decisions) % urgentness = 0

decide_early(remaining, min_remaining_decisions) ==
    IF remaining = 0 THEN FALSE
    ELSE IF min_remaining_decisions <= remaining THEN TRUE
    ELSE LET urgentness == (min_remaining_decisions \div remaining) \div remaining
         IN  urgentness # 0 /\ wrapping_mul(min_remaining_decisions) % urgentness = 0

\* ------------------------------------------------------------------- paths
\* A module path src/<dir>/.../triangle<name>.jsx: dir is the list of nested
\* directories below src, each the name of the module it was made for, and
\* name is the list of the _i suffixes after "triangle".
Root == [dir |-> <<>>, name |-> <<>>]

\* a child always placed in a nested directory
child_nested(file, in_subdirectory, i) ==
    [dir |-> Append(file.dir, file.name), name |-> <<i>>]

\* a child that is never moved into the directory made for it
child_beside(file, in_subdirectory, i) ==
    IF in_subdirectory
    THEN [dir |-> file.dir, name |-> <<i>>]
    ELSE [dir |-> file.dir, name |-> Append(file.name, i)]

\* the i-th child of the module at file (lines 146-168)
child(file, in_subdirectory, i) ==
    IF in_subdirectory
    THEN [dir |-> Append(file.dir, file.name), name |-> <<i>>]
    ELSE [dir |-> file.dir, name |-> Append(file.name, i)]

\* the leaf test without its look at whether the queue is empty
is_leaf_any_queue(remaining, queue_len, flat) ==
    remaining = 0 \/ (queue_len + remaining) % (flat + 1) = 0

\* the leaf test on the length the queue had before file was popped
is_leaf_before_pop(remaining, queue_len, flat) ==
    remaining = 0 \/ (queue_len + 1 + remaining) % (flat + 1) = 0

\* the leaf test of the loop, after file has been popped
is_leaf(remaining, queue_len, flat) ==
    remaining = 0 \/ (queue_len # 0 /\ (queue_len + remaining) % (flat + 1) = 0)

\* an is_root that is never cleared
is_root_kept(root) == root

\* is_root after the hydration marker has been handed out
is_root_after(root) == FALSE

\* the value of remaining_modules when the loop starts, before overflow
initial_remaining(count) == count - 1 - 1

\* The closure mapped over the three children (lines 172-195), from child i on:
\* the choices made (TRUE for a dynamic import), the dynamic imports left,
\* and the panic that ended it.
RECURSIVE map_children(_, _, _)
map_children(i, remaining, remaining_mods) ==
    IF i = 3 THEN [choices |-> <<>>, remaining |-> remaining, panic |-> "none"]
    ELSE
    LET m == remaining_mods + (2 - i)
        p == decide_early_panic(remaining, m)
    IN  IF p # "none"
        THEN [choices |-> <<>>, remaining |-> remaining, panic |-> p]
        ELSE IF ~decide_early(remaining, m)
        THEN LET rest == map_children(i + 1, remaining, remaining_mods)
             IN  [rest EXCEPT !.choices = <<FALSE>> \o @]
        ELSE IF overflow_checks /\ sub_overflows(remaining, 1)
        THEN [choices |-> <<>>, remaining |-> remaining, panic |-> "sub_overflow"]
        ELSE LET rest == map_children(i + 1, wrapping_sub(remaining, 1), remaining_mods)
             IN  [rest EXCEPT !.choices = <<TRUE>> \o @]

\* ------------------------------------------------------------ fixed layout
\* what build creates after the loop, in order (lines 257-450)
FixedOps == <<
    [op |-> "file", path |-> "src/index.jsx"],
    [op |-> "dir",  path |-> "src/pages"],
    [op |-> "file", path |-> "src/pages/page.jsx"],
    [op |-> "file", path |-> "src/pages/static.jsx"],
    [op |-> "dir",  path |-> "src/app/app"],
    [op |-> "dir",  path |-> "src/app/client"],
    [op |-> "file", path |-> "src/app/page.jsx"],
    [op |-> "file", path |-> "src/app/client/detector.jsx"],
    [op |-> "file", path |-> "src/app/client/page.jsx"],
    [op |-> "file", path |-> "src/layout.jsx"],
    [op |-> "file", path |-> "src/index.html"],
    [op |-> "dir",  path |-> "public"],
    [op |-> "file", path |-> "public/index.html"],
    [op |-> "file", path |-> "vite-server.mjs"],
    [op |-> "file", path |-> "src/vite-entry-server.jsx"],
    [op |-> "file", path |-> "src/vite-entry-client.jsx"] >>

\* the steps after the loop under the builder's package_json (lines 452-468)
BootstrapOps ==
    IF package_json
    THEN Append(FixedOps, [op |-> "file", path |-> "package.json"])
    ELSE FixedOps

\* ------------------------------------------------------------------- build
\* a build that deletes what it wrote whenever it is left early
on_disk_rolled_back(next_pc, files, nothing) ==
    IF next_pc \in {"error", "panic"} THEN nothing ELSE files

\* What is on disk of files after a step that leaves build at next_pc: the
\* TempDir of a temporary target is dropped, and its directory deleted, when
\* build is left by an error or a panic (lines 84, 490-493).
on_disk(next_pc, files, nothing) ==
    IF target = "Temp" /\ next_pc \in {"error", "panic"} THEN nothing ELSE files

\* a push at the front of the queue
push_front(q, f) == <<f>> \o q

\* VecDeque::push_back
push_back(q, f) == Append(q, f)

NoCall == [fn |-> "none", remaining |-> 0, min |-> 0, result |-> "none"]

Init ==
    /\ target \in {"Set", "Temp"}
    /\ module_count \in 0..MaxModuleCount
    /\ directories_count \in 0..MaxDirectories
    /\ dynamic_import_count \in 0..MaxDynamicImports
    /\ flatness \in FlatnessValues
    /\ package_json \in BOOLEAN
    /\ overflow_checks \in BOOLEAN
    /\ pc = "start"
    /\ panic = "none"
    /\ remaining_modules = 0
    /\ remaining_directories = 0
    /\ remaining_dynamic_imports = 0
    /\ queue = <<>>
    /\ modules = <<>>
    /\ is_root = TRUE
    /\ clamped = FALSE
    /\ nodes = <<>>
    /\ imports = <<>>
    /\ dirs = {}
    /\ written = <<>>
    /\ fixed = <<>>
    /\ bs = 0
    /\ call = NoCall

\* lines 81-100: the target and src directories, the budgets, the queue
Setup ==
    /\ pc = "start"
    /\ UNCHANGED <<config, modules, is_root, clamped, nodes, imports, dirs, written,
                   bs, call>>
    /\ \E ok \in BOOLEAN :
        IF ~ok
        THEN /\ pc' = "error"
             /\ UNCHANGED <<panic, budget, queue, fixed>>
        ELSE
        /\ IF overflow_checks /\ sub_overflows(module_count, 1)
           THEN /\ pc' = "panic"
                /\ panic' = "sub_overflow"
                /\ UNCHANGED <<budget, queue>>
           ELSE
           LET first == wrapping_sub(module_count, 1)
           IN  /\ remaining_directories' = directories_count
               /\ remaining_dynamic_imports' = dynamic_import_count
               /\ queue' = <<Root>>
               /\ IF overflow_checks /\ sub_overflows(first, 1)
                  THEN /\ pc' = "panic"
                       /\ panic' = "sub_overflow"
                       /\ remaining_modules' = first
                  ELSE /\ pc' = "loop"
                       /\ panic' = panic
                       /\ remaining_modules' =
                              (initial_remaining(module_count) + 2 * UsizeModulus) % UsizeModulus
        /\ fixed' = on_disk(pc', <<[op |-> "dir", path |-> "src"]>>, <<>>)

\* line 103 when the vector of modules cannot grow
PushPanics ==
    /\ pc = "loop"
    /\ queue # <<>>
    /\ Len(modules) >= MaxVecLen
    /\ queue' = Tail(queue)
    /\ pc' = "panic"
    /\ panic' = "capacity_overflow"
    /\ dirs' = on_disk(pc', dirs, {})
    /\ written' = on_disk(pc', written, <<>>)
    /\ fixed' = on_disk(pc', fixed, <<>>)
    /\ UNCHANGED <<config, budget, modules, is_root, clamped, nodes, imports, bs, call>>

\* lines 102-141: one iteration of the loop on a leaf
ProcessLeaf ==
    /\ pc = "loop"
    /\ queue # <<>>
    /\ Len(modules) < MaxVecLen
    /\ is_leaf(remaining_modules, Len(Tail(queue)), flatness)
    /\ queue' = Tail(queue)
    /\ modules' = Append(modules, Head(queue))
    /\ nodes' = Append(nodes, [path |-> Head(queue), kind |-> "Leaf", subdir |-> "none"])
    /\ \E ok \in BOOLEAN :
        IF ok
        THEN /\ written' = Append(written, [path |-> Head(queue), kind |-> "Leaf",
                                            hydration |-> FALSE, dynamic |-> <<>>])
             /\ pc' = pc
        ELSE /\ pc' = "error"
             /\ written' = on_disk(pc', written, <<>>)
    /\ dirs' = on_disk(pc', dirs, {})
    /\ fixed' = on_disk(pc', fixed, <<>>)
    /\ UNCHANGED <<config, panic, budget, is_root, clamped, imports, bs, call>>

\* lines 142-237 for the popped file: the values build leaves behind, given
\* whether create_dir_all and write_file succeed
expand(file, dir_ok, write_ok) ==
    LET q1 == Tail(queue)
        s0 == [pc |-> "loop", panic |-> "none", queue |-> q1,
               remaining_modules |-> remaining_modules,
               remaining_directories |-> remaining_directories,
               remaining_dynamic_imports |-> remaining_dynamic_imports,
               is_root |-> is_root, clamped |-> clamped, subdir |-> "none",
               imports |-> <<>>, dirs |-> {}, written |-> <<>>]
        opportunities == remaining_modules \div 3
        p == decide_panic(remaining_directories, opportunities)
    IN
    IF p # "none" THEN [s0 EXCEPT !.pc = "panic", !.panic = p]
    ELSE
    LET in_subdirectory == decide(remaining_directories, opportunities)
        s1 == [s0 EXCEPT !.subdir = IF in_subdirectory THEN "true" ELSE "false"]
    IN
    IF in_subdirectory /\ overflow_checks /\ sub_overflows(remaining_directories, 1)
    THEN [s1 EXCEPT !.pc = "panic", !.panic = "sub_overflow"]
    ELSE
    LET s2 == [s1 EXCEPT !.remaining_directories =
                   IF in_subdirectory THEN wrapping_sub(@, 1) ELSE @]
    IN
    IF in_subdirectory /\ ~dir_ok THEN [s2 EXCEPT !.pc = "error"]
    ELSE
    LET children == [i \in 1..3 |-> child(file, in_subdirectory, i)]
        s3 == [s2 EXCEPT !.dirs = IF in_subdirectory
                                  THEN {Append(file.dir, file.name)} ELSE {}]
    IN
    IF Len(q1) + 3 > MaxVecLen
    THEN [s3 EXCEPT !.pc = "panic", !.panic = "capacity_overflow",
                    !.queue = q1 \o SubSeq(children, 1, MaxVecLen - Len(q1))]
    ELSE
    LET left == saturating_sub(remaining_modules, 3)
        m == map_children(0, remaining_dynamic_imports, left)
        s4 == [s3 EXCEPT !.queue = push_back(push_back(push_back(q1, children[1]),
                                                        children[2]), children[3]),
                         !.remaining_modules = left,
                         !.clamped = @ \/ remaining_modules < 3,
                         !.remaining_dynamic_imports = m.remaining,
                         !.imports = [k \in 1..Len(m.choices) |->
                                        [parent |-> file, n |-> k, dynamic |-> m.choices[k]]]]
    IN
    IF m.panic # "none" THEN [s4 EXCEPT !.pc = "panic", !.panic = m.panic]
    ELSE
    LET s5 == [s4 EXCEPT !.is_root = is_root_after(is_root)]
    IN
    IF ~write_ok THEN [s5 EXCEPT !.pc = "error"]
    ELSE [s5 EXCEPT !.written = <<[path |-> file, kind |-> "Container",
                                   hydration |-> is_root, dynamic |-> m.choices]>>]

\* lines 102-120 and 142-237: one iteration of the loop on a container
ProcessContainer ==
    /\ pc = "loop"
    /\ queue # <<>>
    /\ Len(modules) < MaxVecLen
    /\ ~is_leaf(remaining_modules, Len(Tail(queue)), flatness)
    /\ modules' = Append(modules, Head(queue))
    /\ \E dir_ok \in BOOLEAN, write_ok \in BOOLEAN :
        LET r == expand(Head(queue), dir_ok, write_ok)
        IN  /\ pc' = r.pc
            /\ panic' = r.panic
            /\ queue' = r.queue
            /\ remaining_modules' = r.remaining_modules
            /\ remaining_directories' = r.remaining_directories
            /\ remaining_dynamic_imports' = r.remaining_dynamic_imports
            /\ is_root' = r.is_root
            /\ clamped' = r.clamped
            /\ nodes' = Append(nodes, [path |-> Head(queue), kind |-> "Container",
                                       subdir |-> r.subdir])
            /\ imports' = imports \o r.imports
            /\ dirs' = on_disk(r.pc, dirs \cup r.dirs, {})
            /\ written' = on_disk(r.pc, written \o r.written, <<>>)
            /\ fixed' = on_disk(r.pc, fixed, <<>>)
    /\ UNCHANGED <<config, bs, call>>

\* line 102: the queue is empty
LoopExit ==
    /\ pc = "loop"
    /\ queue = <<>>
    /\ pc' = "bootstrap"
    /\ bs' = 1
    /\ UNCHANGED <<config, panic, budget, queue, modules, is_root, clamped, nodes,
                   imports, dirs, written, fixed, call>>

\* lines 257-468: the next directory or file of the fixed layout
BootstrapStep ==
    /\ pc = "bootstrap"
    /\ bs <= Len(BootstrapOps)
    /\ \E ok \in BOOLEAN :
        IF ok
        THEN /\ fixed' = Append(fixed, BootstrapOps[bs])
             /\ bs' = bs + 1
             /\ pc' = pc
        ELSE /\ pc' = "error"
             /\ fixed' = on_disk(pc', fixed, <<>>)
             /\ bs' = bs
    /\ dirs' = on_disk(pc', dirs, {})
    /\ written' = on_disk(pc', written, <<>>)
    /\ UNCHANGED <<config, panic, budget, queue, modules, is_root, clamped, nodes,
                   imports, call>>

\* line 470: Ok(TestApp { target, modules })
Return ==
    /\ pc = "bootstrap"
    /\ bs > Len(BootstrapOps)
    /\ pc' = "done"
    /\ UNCHANGED <<config, panic, budget, queue, modules, is_root, clamped, nodes,
                   imports, dirs, written, fixed, bs, call>>

Next ==
    \/ Setup
    \/ PushPanics
    \/ ProcessLeaf
    \/ ProcessContainer
    \/ LoopExit
    \/ BootstrapStep
    \/ Return

Spec == Init /\ [][Next]_vars

\* build runs to its end once called: no step of it waits for anything
FairSpec == Init /\ [][Next]_vars /\ WF_vars(Next)

\* ------------------------------------------- the decision functions alone
\* a call of decide or decide_early with arguments of its own
InitDecide ==
    /\ target = "Set"
    /\ module_count = 0
    /\ directories_count = 0
    /\ dynamic_import_count = 0
    /\ flatness = 0
    /\ package_json = FALSE
    /\ overflow_checks \in BOOLEAN
    /\ pc = "call"
    /\ panic = "none"
    /\ remaining_modules = 0
    /\ remaining_directories = 0
    /\ remaining_dynamic_imports = 0
    /\ queue = <<>>
    /\ modules = <<>>
    /\ is_root = TRUE
    /\ clamped = FALSE
    /\ nodes = <<>>
    /\ imports = <<>>
    /\ dirs = {}
    /\ written = <<>>
    /\ fixed = <<>>
    /\ bs = 0
    /\ call \in [fn : {"decide", "decide_early"}, remaining : 0..MaxArg,
                 min : 0..MaxArg, result : {"pending"}]

\* what a call leaves: the panic, or the value returned
outcome(p, value) == IF p # "none" THEN p ELSE IF value THEN "true" ELSE "false"

CallDecide ==
    /\ pc = "call"
    /\ call.fn = "decide"
    /\ call.result = "pending"
    /\ call' = [call EXCEPT !.result = outcome(decide_panic(call.remaining, call.min),
                                               decide(call.remaining, call.min))]
    /\ UNCHANGED <<config, pc, panic, budget, queue, modules, is_root, clamped, nodes,
                   imports, dirs, written, fixed, bs>>

CallDecideEarly ==
    /\ pc = "call"
    /\ call.fn = "decide_early"
    /\ call.result = "pending"
    /\ call' = [call EXCEPT !.result = outcome(decide_early_panic(call.remaining, call.min),
                                               decide_early(call.remaining, call.min))]
    /\ UNCHANGED <<config, pc, panic, budget, queue, modules, is_root, clamped, nodes,
                   imports, dirs, written, fixed, bs>>

NextDecide == CallDecide \/ CallDecideEarly

SpecDecide == InitDecide /\ [][NextDecide]_vars

\* ------------------------------------------- longer runs of the directories
\* build with no dynamic imports and an explicit target, for module counts
\* large enough that decide is called with several opportunities left for
\* each directory (no call of decide_early multiplies: its budget is 0)
InitDirectories ==
    /\ target = "Set"
    /\ module_count \in 0..MaxLongModuleCount
    /\ directories_count \in 0..MaxDirectories
    /\ dynamic_import_count = 0
    /\ flatness \in FlatnessValues
    /\ package_json = FALSE
    /\ overflow_checks \in BOOLEAN
    /\ pc = "start"
    /\ panic = "none"
    /\ remaining_modules = 0
    /\ remaining_directories = 0
    /\ remaining_dynamic_imports = 0
    /\ queue = <<>>
    /\ modules = <<>>
    /\ is_root = TRUE
    /\ clamped = FALSE
    /\ nodes = <<>>
    /\ imports = <<>>
    /\ dirs = {}
    /\ written = <<>>
    /\ fixed = <<>>
    /\ bs = 0
    /\ call = NoCall

SpecDirectories == InitDirectories /\ [][Next]_vars

\* ------------------------------------------------------------------ claims
\* lines 91-96 have run: the budgets hold their values
BudgetInitialised == queue # <<>> \/ modules # <<>>

Containers == {k \in 1..Len(nodes) : nodes[k].kind = "Container"}
ContainerCount == Cardinality(Containers)
\* containers whose subdirectory decision returned true
SubdirTrue == Cardinality({k \in 1..Len(nodes) : nodes[k].subdir = "true"})
\* child references rendered as dynamic imports
DynamicCount == Cardinality({k \in 1..Len(imports) : imports[k].dynamic})
\* written module files that carry the hydration marker
Hydrated == {k \in 1..Len(written) : written[k].hydration}

\* C1: when build completes, the module list holds 1 + 3 * (number of
\* containers) paths and its length differs from module_count by at most 2.
C1_ModuleCountSlack ==
    pc = "done" =>
        /\ Len(modules) = 1 + 3 * ContainerCount
        /\ Len(modules) - module_count <= 2
        /\ module_count - Len(modules) <= 2

\* a completed run of several containers whose module list is not module_count long
C1_Witness == pc = "done" /\ ContainerCount >= 2 /\ Len(modules) # module_count

\* C2: with module_count = 1 build does not panic, processes no container,
\* enqueues no child, and completes with the single module src/triangle.jsx,
\* a leaf.
C2_SingleLeaf ==
    module_count = 1 =>
        /\ pc # "panic"
        /\ ContainerCount = 0
        /\ \A k \in 1..Len(queue) : queue[k] = Root
        /\ pc = "done" => /\ modules = <<Root>>
                          /\ Len(nodes) = 1
                          /\ nodes[1].kind = "Leaf"

\* the subdirectory decisions that returned true are the directories spent
C3_DirectoryInvariant ==
    BudgetInitialised =>
        /\ SubdirTrue = directories_count - remaining_directories
        /\ SubdirTrue <= directories_count
        /\ remaining_directories >= 0

\* a step changes remaining_directories only by taking 1 from a positive
\* value, together with one more true decision
C3_DirectoryStep ==
    BudgetInitialised /\ remaining_directories' # remaining_directories =>
        /\ remaining_directories > 0
        /\ remaining_directories' = remaining_directories - 1
        /\ SubdirTrue' = SubdirTrue + 1

\* C3: in every state the number of containers whose subdirectory decision
\* returned true is directories_count - remaining_directories and at most
\* directories_count; remaining_directories goes down by exactly 1 per true
\* decision and never from 0.
C3_DirectoryBudget == []C3_DirectoryInvariant /\ [][C3_DirectoryStep]_vars

\* every directory spent in a run that also kept a container in place
C3_Witness ==
    /\ directories_count >= 1
    /\ remaining_directories = 0
    /\ SubdirTrue = directories_count
    /\ \E k \in Containers : nodes[k].subdir = "false"

\* the child references rendered dynamic are the dynamic imports spent
C4_DynamicInvariant ==
    BudgetInitialised =>
        /\ DynamicCount = dynamic_import_count - remaining_dynamic_imports
        /\ DynamicCount <= dynamic_import_count
        /\ remaining_dynamic_imports >= 0

\* a step takes from remaining_dynamic_imports exactly the dynamic
\* references it renders, and nothing from 0
C4_DynamicStep ==
    BudgetInitialised =>
        /\ remaining_dynamic_imports' <= remaining_dynamic_imports
        /\ remaining_dynamic_imports - remaining_dynamic_imports'
               = DynamicCount' - DynamicCount
        /\ remaining_dynamic_imports = 0 => remaining_dynamic_imports' = 0

\* C4: in every state the number of child references rendered as dynamic
\* imports is dynamic_import_count - remaining_dynamic_imports and at most
\* dynamic_import_count; remaining_dynamic_imports goes down by exactly 1 per
\* dynamic reference and never from 0.
C4_DynamicBudget == []C4_DynamicInvariant /\ [][C4_DynamicStep]_vars

\* both dynamic imports spent, next to a static reference
C4_Witness ==
    /\ dynamic_import_count = 2
    /\ remaining_dynamic_imports = 0
    /\ DynamicCount = 2
    /\ \E k \in 1..Len(imports) : ~imports[k].dynamic

\* C5: at most one written module carries the hydration marker, and only the
\* root, the first node processed; after a completed run the marker is there
\* exactly when the root is a container, and absent exactly when it is a leaf.
C5_HydrationOnce ==
    /\ Cardinality(Hydrated) <= 1
    /\ \A k \in Hydrated : k = 1 /\ written[k].path = Root /\ modules[1] = Root
    /\ pc = "done" => /\ nodes[1].kind = "Container" <=> Cardinality(Hydrated) = 1
                      /\ nodes[1].kind = "Leaf" <=> Hydrated = {}

\* a completed run with several containers written, one of them marked
C5_Witness ==
    /\ pc = "done"
    /\ Cardinality(Hydrated) = 1
    /\ Cardinality({k \in 1..Len(written) : written[k].kind = "Container"}) >= 2

\* C6: with module_count >= 2 the first node dequeued, src/triangle.jsx, is
\* processed as a container.
C6_RootIsContainer ==
    module_count >= 2 /\ Len(nodes) >= 1 =>
        nodes[1].path = Root /\ nodes[1].kind = "Container"

\* C7: the loop terminates: unless a directory or file cannot be written,
\* the queue becomes empty and build reaches the files after the loop.
C7_LoopTerminates == <>(pc \in {"bootstrap", "done", "error"})

\* C8: no call of decide_early made by build has a zero divisor: build never
\* divides by zero.
C8_NoDivisionByZero == panic # "div_by_zero"

\* decide over the integers, as the reference states it
decide_reference(remaining, min_remaining_decisions) ==
    IF remaining = 0 THEN "false"
    ELSE IF min_remaining_decisions <= remaining THEN "true"
    ELSE IF (min_remaining_decisions * 385)
                % (min_remaining_decisions \div remaining) = 0
         THEN "true" ELSE "false"

\* C9: decide returns for every pair of arguments, and returns the value of
\* the reference; decide(0, x) is false.
C9_DecideIsReference ==
    call.fn = "decide" /\ call.result # "pending" =>
        call.result = decide_reference(call.remaining, call.min)

\* C10: with module_count = 4, directories_count = 0, dynamic_import_count = 0
\* and flatness = 5 the root is a container, its children are the leaves
\* src/triangle_1.jsx, _2, _3 beside it, no directory is nested, every child
\* reference is static, and the module list ends with exactly 4 entries.
C10_FourModules ==
    module_count = 4 /\ directories_count = 0 /\ dynamic_import_count = 0
        /\ flatness = 5 =>
        /\ pc # "panic"
        /\ Len(nodes) >= 1 =>
               nodes[1] = [path |-> Root, kind |-> "Container", subdir |-> "false"]
        /\ \A k \in 2..Len(nodes) :
               /\ nodes[k].kind = "Leaf"
               /\ nodes[k].path = [dir |-> <<>>, name |-> <<k - 1>>]
        /\ dirs = {}
        /\ \A k \in 1..Len(imports) : ~imports[k].dynamic
        /\ pc \in {"bootstrap", "done"} =>
               /\ Len(modules) = 4
               /\ Len(nodes) = 4
               /\ Len(imports) = 3
               /\ \A k \in 1..4 : modules[k] = nodes[k].path

\* that configuration, run to its end
C10_Witness ==
    /\ module_count = 4 /\ directories_count = 0 /\ dynamic_import_count = 0
    /\ flatness = 5
    /\ pc = "done"
    /\ Len(written) = 4

\* the three paths a container enqueues, from what build recorded of it
\* (lines 146-169): a nested container names its children triangle_i.jsx in
\* a directory of its own name, the others extend their own name
enqueued_by(n) ==
    IF n.kind # "Container" THEN <<>>
    ELSE IF n.subdir = "true"
    THEN [i \in 1..3 |-> [dir |-> Append(n.path.dir, n.path.name), name |-> <<i>>]]
    ELSE [i \in 1..3 |-> [dir |-> n.path.dir, name |-> Append(n.path.name, i)]]

\* every path enqueued while the first k nodes were processed, in order
RECURSIVE enqueue_order(_)
enqueue_order(k) ==
    IF k = 0 THEN <<Root>> ELSE enqueue_order(k - 1) \o enqueued_by(nodes[k])

\* build has not been left by a panic or an error
Running == pc \in {"loop", "bootstrap", "done"}

\* C12: the first entry of the module list is always src/triangle.jsx, the
\* modules are listed in the order they were dequeued, and while build runs
\* the modules dequeued followed by the queue are all the paths in the order
\* they were enqueued: the root, then the children 1, 2, 3 of each container
\* in dequeue order.
C12_BreadthFirstOrder ==
    /\ modules # <<>> => modules[1] = Root
    /\ Len(modules) = Len(nodes)
    /\ \A k \in 1..Len(modules) : modules[k] = nodes[k].path
    /\ Running /\ BudgetInitialised => modules \o queue = enqueue_order(Len(nodes))

\* a completed run whose second module is a container: its children were
\* enqueued behind its two siblings
C12_Witness ==
    /\ pc = "done"
    /\ Len(nodes) >= 7
    /\ nodes[2].kind = "Container"
    /\ modules[3] = [dir |-> <<>>, name |-> <<2>>]

\* every path build has handed out so far: dequeued or waiting
all_paths == modules \o queue

\* C13: in every state no path occurs twice among the modules already
\* dequeued and the queue together, whatever mix of nested directories and
\* name suffixes derived them.
C13_UniquePaths ==
    Cardinality({all_paths[k] : k \in 1..Len(all_paths)}) = Len(all_paths)

\* a completed run that derived children both ways: into a nested directory
\* and beside their parent
C13_Witness ==
    /\ pc = "done"
    /\ \E k \in Containers : nodes[k].subdir = "true"
    /\ \E k \in Containers : nodes[k].subdir = "false"
    /\ Len(modules) >= 7

\* line 100: the file every generated module imports its Detector from
detector_path == "src/detector.jsx"

\* the files of the fixed layout that are on disk
fixed_files == {fixed[k].path : k \in {j \in 1..Len(fixed) : fixed[j].op = "file"}}

\* C14: after a successful build every file of the fixed layout is written,
\* among them src/detector.jsx, which every generated module imports, and
\* package.json is written exactly when a manifest config is supplied.
C14_FixedLayout ==
    pc = "done" =>
        /\ \A k \in 1..Len(FixedOps) :
               FixedOps[k].op = "file" => FixedOps[k].path \in fixed_files
        /\ detector_path \in fixed_files
        /\ "package.json" \in fixed_files <=> package_json

\* the step returns an error and leaves on disk all that was there before it
error_keeps_files ==
    pc' = "error" => dirs \subseteq dirs' /\ written' = written /\ fixed' = fixed

\* the step returns an error and the temporary directory is gone with all
\* that was in it
error_drops_tempdir ==
    pc' = "error" => dirs' = {} /\ written' = <<>> /\ fixed' = <<>>

\* a failed create_dir_all or write_file makes build return the error: the
\* step that fails writes no file, and no step follows it (nothing more is
\* written or dequeued, and no TestApp is returned)
error_returns ==
    /\ pc # "error"
    /\ pc' = "error" => bs' = bs /\ panic' = panic

\* C15 as stated: a failed directory creation or file write aborts build at
\* once, and nothing already written is removed.
C15_ErrorAborts == [][error_returns /\ error_keeps_files]_vars

\* C15, amended: a failed directory creation or file write aborts build at
\* once; what was written stays when the target was set by the caller, and
\* is deleted with the temporary directory when build made the target.
C15_ErrorAbortsByTarget ==
    [][/\ error_returns
       /\ target = "Set" => error_keeps_files
       /\ target = "Temp" => error_drops_tempdir]_vars

\* an error after several modules were written into a temporary target
C15_Witness ==
    /\ pc = "error"
    /\ target = "Temp"
    /\ Len(modules) >= 3
    /\ written = <<>>
    /\ fixed = <<>>

\* the loop is about to dequeue the root
at_first_iteration == pc = "loop" /\ modules = <<>> /\ queue = <<Root>>

\* C16: when the root is dequeued, remaining_modules is module_count - 1:
\* only the root has been counted against the module budget.
C16_RootPrecounted ==
    at_first_iteration => remaining_modules = module_count - 1

\* the step dequeues a node and classifies it
classifies == pc = "loop" /\ Len(nodes') = Len(nodes) + 1

\* C17: a dequeued node is a Leaf exactly when, with the node already off
\* the queue, remaining_modules = 0 or the queue is non-empty and
\* (queue length + remaining_modules) mod (flatness + 1) = 0, and a
\* Container otherwise; a Leaf enqueues nothing and changes no budget, a
\* Container whose iteration completes enqueues exactly three children.
C17_Classification ==
    [][classifies =>
        LET rest == Tail(queue)
            node == nodes'[Len(nodes')]
        IN  /\ node.path = Head(queue)
            /\ node.kind \in {"Leaf", "Container"}
            /\ node.kind = "Leaf" <=>
                   \/ remaining_modules = 0
                   \/ /\ rest # <<>>
                      /\ (Len(rest) + remaining_modules) % (flatness + 1) = 0
            /\ node.kind = "Leaf" => queue' = rest /\ budget' = budget
            /\ node.kind = "Container" /\ pc' = "loop" =>
                   /\ Len(queue') = Len(rest) + 3
                   /\ SubSeq(queue', 1, Len(rest)) = rest]_vars

\* the node classified last is a Leaf although modules remain: the queue
\* length decided it
C17_Witness ==
    /\ pc = "loop"
    /\ module_count >= 2
    /\ ContainerCount >= 1
    /\ nodes[Len(nodes)].kind = "Leaf"
    /\ remaining_modules > 0
    /\ flatness > 0

\* C18: a completed run in which no subtraction of 3 saturated (every
\* container was expanded with remaining_modules >= 3) has created exactly
\* module_count modules; the count differs from module_count only when a
\* subtraction saturated.
C18_ExactWithoutClamp ==
    pc = "done" /\ ~clamped => Len(modules) = module_count

\* no budget is above the value the builder gave it: a usize that went
\* below 0 without overflow checks has wrapped to the top of its range
within_budgets ==
    /\ remaining_modules <= module_count
    /\ remaining_directories <= directories_count
    /\ remaining_dynamic_imports <= dynamic_import_count

\* C19: from the initialisation of the budgets on, no subtraction on
\* remaining_modules, remaining_directories or remaining_dynamic_imports
\* underflows, the first counting of the root included, and none of the
\* three ever goes up from one step to the next.
C19_BudgetsMonotone ==
    [][/\ panic' # "sub_overflow"
       /\ BudgetInitialised' => within_budgets'
       /\ BudgetInitialised =>
              /\ remaining_modules' <= remaining_modules
              /\ remaining_directories' <= remaining_directories
              /\ remaining_dynamic_imports' <= remaining_dynamic_imports]_vars

\* the loop has found its queue empty, or is about to
queue_exhausted ==
    \/ pc = "loop" /\ queue = <<>> /\ modules # <<>>
    \/ pc \in {"bootstrap", "done"}

\* the queue is empty only with the module budget used up
C20_EmptyQueueInvariant == queue_exhausted => remaining_modules = 0

\* a node dequeued as the last of the queue is a Leaf only at budget 0
C20_LastNodeStep ==
    classifies /\ Tail(queue) = <<>> /\ nodes'[Len(nodes')].kind = "Leaf" =>
        remaining_modules = 0

\* C20: a node whose dequeuing leaves the queue empty is classified Leaf
\* only if remaining_modules = 0, so the queue stays empty, and the loop
\* ends, only with remaining_modules = 0, for every flatness, 0 included.
C20_BudgetConsumed == []C20_EmptyQueueInvariant /\ [][C20_LastNodeStep]_vars

\* a completed run at flatness 0, where every node dequeued from a
\* non-empty rest is a Leaf: the last node of the queue went on expanding
C20_Witness ==
    /\ pc = "done"
    /\ flatness = 0
    /\ ContainerCount >= 2
    /\ nodes[Len(nodes)].kind = "Leaf"

\* the smaller of two numbers
min(a, b) == IF a <= b THEN a ELSE b

\* C21: after a completed run the number of nested directories created is
\* min(directories_count, number of containers); remaining_directories is 0
\* at the end whenever directories_count is at most the number of containers.
C21_DirectoriesExhausted ==
    pc = "done" =>
        /\ SubdirTrue = min(directories_count, ContainerCount)
        /\ Cardinality(dirs) = SubdirTrue
        /\ directories_count <= ContainerCount => remaining_directories = 0

\* a completed run whose root was kept in place by a decision that was not
\* forced, and which spent both directories on later containers
C21_Witness ==
    /\ pc = "done"
    /\ directories_count = 2
    /\ nodes[1].subdir = "false"
    /\ SubdirTrue = 2
    /\ ContainerCount >= 5

====
